---- MODULE Spec2Model ----
(***************************************************************************)
(* A model of src/app.py: the /ocr request handler of the driver-license   *)
(* verification API and the pure functions it is built from                *)
(* (allowed_file, extract_faces_from_image, compare_faces,                 *)
(* calculate_safety_score, get_safety_status, get_confidence_level).       *)
(*                                                                         *)
(* Texts and filenames are strings, read character by character.           *)
(* Similarities and face distances are fixed-point numbers in units of     *)
(* 1/Scale (hundredths): 0.4 is 40, the tolerance 0.6 is 60.               *)
(***************************************************************************)
EXTENDS Integers, Sequences, FiniteSets, TLC

VARIABLES
    pc,                      \* position of the handler (or of the function applied)
    request,                 \* the uploaded files: presence, filenames, image bytes
    text,                    \* best OCR text so far (ocr: text)
    ocr_idx,                 \* index into ocr_configs of the next configuration
    temp_files,              \* temporary files that exist on disk
    image_path,              \* argument of the running extract_faces_from_image call
    detect_stage,            \* 1 = HOG, 2 = HOG with 2x upsample, 3 = CNN
    face_locations,          \* number of face locations the detector returned
    license_face_encodings,  \* ocr: license_face_encodings
    user_face_encodings,     \* ocr: user_face_encodings
    i, j,                    \* compare_faces: loop indices
    best_match_score,        \* compare_faces: best_match_score
    distance_calls,          \* history: calls of face_recognition.face_distance
    face_match_score,        \* ocr: face_match_score
    is_license,              \* ocr: is_license
    safety_score,            \* ocr: safety_score
    safety_status,           \* ocr: safety_status
    confidence_level,        \* ocr: confidence_level
    score_breakdown,         \* the 'score_breakdown' object of the JSON result
    response,                \* [status, error]; status 0 while no response was sent
    steps                    \* history: pipeline steps executed so far

vars == <<pc, request, text, ocr_idx, temp_files, image_path, detect_stage,
          face_locations, license_face_encodings, user_face_encodings, i, j,
          best_match_score, distance_calls, face_match_score, is_license,
          safety_score, safety_status, confidence_level, score_breakdown,
          response, steps>>

(***************************************************************************)
(* Bounds and the fixed-point unit                                         *)
(***************************************************************************)
\* Largest number of faces a detector reports in one image.
MaxFaces == 2

\* Largest increase of the similarity between two applications of the scorer.
MaxSimStep == 3

\* Fixed-point unit of similarities and distances: 1.0 is Scale.
Scale == 100

Similarities == 0..Scale

\* Face encodings are points on a line; face_distance is their distance.
EncodingPoints == {0, 40, 60, 101}

EncodingSets == UNION {[1..n -> EncodingPoints] : n \in 0..MaxFaces}

(***************************************************************************)
(* Strings                                                                 *)
(***************************************************************************)
Ch(s, k) == SubSeq(s, k, k)

UpperChars == "ABCDEFGHIJKLMNOPQRSTUVWXYZ"

LowerChars == "abcdefghijklmnopqrstuvwxyz"

Upper == {Ch(UpperChars, k) : k \in 1..26}

Lower == {Ch(LowerChars, k) : k \in 1..26}

Digit == {"0", "1", "2", "3", "4", "5", "6", "7", "8", "9"}

Space == {" ", "\n", "\t"}

\* str.lower() of one character
lower_char(c) ==
    IF c \in Upper
    THEN Ch(LowerChars, CHOOSE k \in 1..26 : Ch(UpperChars, k) = c)
    ELSE c

\* str.lower(), one half of the string after the other
RECURSIVE lower(_)
lower(s) ==
    IF Len(s) <= 1 THEN lower_char(s)
    ELSE LET half == Len(s) \div 2
         IN  lower(SubSeq(s, 1, half)) \o lower(SubSeq(s, half + 1, Len(s)))

\* str.strip()
RECURSIVE strip(_)
strip(s) ==
    IF s = "" THEN ""
    ELSE IF Ch(s, 1) \in Space THEN strip(SubSeq(s, 2, Len(s)))
    ELSE IF Ch(s, Len(s)) \in Space THEN strip(SubSeq(s, 1, Len(s) - 1))
    ELSE s

\* Python's  sub in s
Contains(sub, s) ==
    \E k \in 1..(Len(s) - Len(sub) + 1) : SubSeq(s, k, k + Len(sub) - 1) = sub

\* s[k .. k+n-1] exists and consists of characters of class
Run(s, k, n, class) ==
    /\ k + n - 1 <= Len(s)
    /\ \A m \in k..(k + n - 1) : Ch(s, m) \in class

\* re.search(r'\d{2}/\d{2}/\d{4}', s)
DateStrict(s) ==
    \E k \in 1..Len(s) :
        /\ Run(s, k, 2, Digit) /\ Run(s, k + 2, 1, {"/"})
        /\ Run(s, k + 3, 2, Digit) /\ Run(s, k + 5, 1, {"/"})
        /\ Run(s, k + 6, 4, Digit)

\* re.search(r'\d{1,2}/\d{1,2}/\d{2,4}', s)
DateLoose(s) ==
    \E k \in 1..Len(s) :
        /\ Run(s, k, 1, Digit)
        /\ \E a \in 1..2 :
              /\ Run(s, k, a, Digit) /\ Run(s, k + a, 1, {"/"})
              /\ \E b \in 1..2 :
                    /\ Run(s, k + a + 1, b, Digit)
                    /\ Run(s, k + a + 1 + b, 1, {"/"})
                    /\ \E c \in 2..4 : Run(s, k + a + b + 2, c, Digit)

\* re.search(r'[A-Z]{<letters>}\s*\d{<low>,<high>}', s) with the match at k
LettersThenDigitsAt(s, k, letters, low, high) ==
    /\ Run(s, k, letters, Upper)
    /\ \E w \in 0..(Len(s) - k) :
          /\ Run(s, k + letters, w, Space)
          /\ \E d \in low..high : Run(s, k + letters + w, d, Digit)

\* re.search(r'[A-Z]{2}\s*\d{6,8}', s)
LicenseNumberStrict(s) ==
    \E k \in 1..Len(s) : LettersThenDigitsAt(s, k, 2, 6, 8)

\* re.search(r'[A-Z]{1,3}\s*\d{4,10}', s)
LicenseNumberLoose(s) ==
    \E k \in 1..Len(s) : \E u \in 1..3 : LettersThenDigitsAt(s, k, u, 4, 10)

\* re.search(r'[A-Z]{2,3}', s)
StateAbbreviation(s) ==
    \E k \in 1..Len(s) : \E u \in 2..3 : Run(s, k, u, Upper)

\* a match of [A-Z][a-z]+ that starts at k and has n lowercase letters
CapWordAt(s, k, n) == Run(s, k, 1, Upper) /\ Run(s, k + 1, n, Lower)

\* re.search(r'[A-Z][a-z]+', s)
CapitalizedWord(s) == \E k \in 1..Len(s) : CapWordAt(s, k, 1)

\* re.search(r'[A-Z][a-z]+\s+[A-Z][a-z]+', s)
NamePattern(s) ==
    \E k \in 1..Len(s) :
        /\ CapWordAt(s, k, 1)
        /\ \E n \in 1..(Len(s) - k) :
              /\ CapWordAt(s, k, n)
              /\ Run(s, k + 1 + n, 1, Space)
              /\ \E w \in 1..(Len(s) - k) :
                    /\ Run(s, k + 1 + n, w, Space)
                    /\ CapWordAt(s, k + 1 + n + w, 1)

(***************************************************************************)
(* allowed_file                                                            *)
(***************************************************************************)
ALLOWED_EXTENSIONS == {"png", "jpg", "jpeg"}

\* filename.rsplit('.', 1)[1], for a filename that holds a '.'
AfterLastDot(filename) ==
    LET dots == {k \in 1..Len(filename) : Ch(filename, k) = "."}
        last == CHOOSE k \in dots : \A m \in dots : m <= k
    IN  SubSeq(filename, last + 1, Len(filename))

allowed_file(filename) ==
    /\ Contains(".", filename)
    /\ lower(AfterLastDot(filename)) \in ALLOWED_EXTENSIONS

(***************************************************************************)
(* calculate_safety_score                                                  *)
(***************************************************************************)
Sum(seq) ==
    LET RECURSIVE Go(_)
        Go(k) == IF k = 0 THEN 0 ELSE seq[k] + Go(k - 1)
    IN  Go(Len(seq))

Min(a, b) == IF a <= b THEN a ELSE b

Max(a, b) == IF a >= b THEN a ELSE b

\* int(face_match_score * factor), the similarity being in units of 1/Scale
IntTimes(similarity, factor) == (similarity * factor) \div Scale

\* the mutant of FaceMatchPoints for the tier boundaries: a poor match is
\* worth less than a license without any match
FaceMatchPoints_lowmid(isLicense, similarity) ==
    IF similarity * 10 > 4 * Scale
    THEN 70 + IntTimes(similarity, 20)
    ELSE IF similarity * 10 > 2 * Scale
    THEN 30 + IntTimes(similarity, 15)
    ELSE IF isLicense THEN 40 ELSE 20

\* the mutant of FaceMatchPoints for the no-match tier: is_license is ignored
FaceMatchPoints_flat(isLicense, similarity) ==
    IF similarity * 10 > 4 * Scale
    THEN 70 + IntTimes(similarity, 20)
    ELSE IF similarity * 10 > 2 * Scale
    THEN 50 + IntTimes(similarity, 15)
    ELSE 40

\* Stage 1, the face-match base: lines 134-152
FaceMatchPoints(isLicense, similarity) ==
    IF similarity * 10 > 4 * Scale
    THEN 70 + IntTimes(similarity, 20)
    ELSE IF similarity * 10 > 2 * Scale
    THEN 50 + IntTimes(similarity, 15)
    ELSE IF isLicense THEN 40 ELSE 20

license_keywords ==
    << [keyword |-> "driver", points |-> 2],
       [keyword |-> "license", points |-> 2],
       [keyword |-> "identification", points |-> 2],
       [keyword |-> "state", points |-> 1],
       [keyword |-> "dmv", points |-> 2],
       [keyword |-> "department", points |-> 1],
       [keyword |-> "motor", points |-> 1],
       [keyword |-> "vehicle", points |-> 1],
       [keyword |-> "id", points |-> 2],
       [keyword |-> "card", points |-> 1] >>

\* lines 168-170; also the 'keyword_matches' entry of the breakdown
KeywordPoints(text_lower) ==
    Sum([k \in 1..Len(license_keywords) |->
            IF Contains(license_keywords[k].keyword, text_lower)
            THEN license_keywords[k].points ELSE 0])

\* lines 173-188
TextQualityPoints(t) ==
    (IF DateStrict(t) THEN 2 ELSE IF DateLoose(t) THEN 1 ELSE 0)
    + (IF LicenseNumberStrict(t) THEN 2
       ELSE IF LicenseNumberLoose(t) THEN 1 ELSE 0)
    + (IF StateAbbreviation(t) THEN 1 ELSE 0)
    + (IF Len(strip(t)) > 20 THEN 1 ELSE 0)
    + (IF NamePattern(t) THEN 1 ELSE IF CapitalizedWord(t) THEN 1 ELSE 0)

license_fields ==
    << "expires", "issued", "class", "restrictions", "endorsements", "date",
       "birth", "address", "height", "weight", "eyes", "hair" >>

\* lines 191-194; also the 'confidence_indicators' entry of the breakdown
ConfidencePoints(text_lower) ==
    Sum([k \in 1..Len(license_fields) |->
            IF Contains(license_fields[k], text_lower) THEN 1 ELSE 0])

\* the mutant of ClampScore: the cap at 100 is missing
ClampScore_nocap(score) == Max(score, 0)

\* lines 199-202
ClampScore(score) == Max(Min(score, 100), 0)

\* Stages 2-4: lines 154-194
TextPoints(t) ==
    LET text_lower == lower(t)
    IN  KeywordPoints(text_lower) + TextQualityPoints(t)
        + ConfidencePoints(text_lower)

calculate_safety_score(t, isLicense, similarity) ==
    ClampScore(FaceMatchPoints(isLicense, similarity) + TextPoints(t))

(***************************************************************************)
(* get_safety_status, get_confidence_level                                 *)
(***************************************************************************)
get_safety_status(score) ==
    IF score >= 80 THEN "very_safe"
    ELSE IF score >= 60 THEN "safe"
    ELSE IF score >= 40 THEN "moderate"
    ELSE IF score >= 25 THEN "risky"
    ELSE IF score >= 10 THEN "unsafe"
    ELSE "rejected"

\* the mutant of get_confidence_level: the 'low' band starts at 30
get_confidence_level_shifted(score) ==
    IF score >= 80 THEN "very_high"
    ELSE IF score >= 60 THEN "high"
    ELSE IF score >= 40 THEN "medium"
    ELSE IF score >= 30 THEN "low"
    ELSE IF score >= 10 THEN "very_low"
    ELSE "minimal"

get_confidence_level(score) ==
    IF score >= 80 THEN "very_high"
    ELSE IF score >= 60 THEN "high"
    ELSE IF score >= 40 THEN "medium"
    ELSE IF score >= 25 THEN "low"
    ELSE IF score >= 10 THEN "very_low"
    ELSE "minimal"

(***************************************************************************)
(* compare_faces                                                           *)
(***************************************************************************)
Abs(x) == IF x < 0 THEN -x ELSE x

\* face_recognition.face_distance([a], b)[0]: the distance of two encodings
face_distance(a, b) == Abs(a - b)

\* line 113: max(0, 1 - face_distance)
Similarity(distance) == Max(0, Scale - distance)

\* the mutant of WithinTolerance: a more lenient tolerance of 0.75
WithinTolerance_lenient(distance) == distance * 100 <= 75 * Scale

\* line 117: face_distance <= 0.6
WithinTolerance(distance) == distance * 10 <= 6 * Scale

\* the mutant of UpdateBest: the first matching pair wins
UpdateBest_first(best, distance) ==
    IF WithinTolerance(distance) /\ best = 0
    THEN Similarity(distance) ELSE best

\* lines 117-120: best_match_score after one pair
UpdateBest(best, distance) ==
    IF WithinTolerance(distance) /\ Similarity(distance) > best
    THEN Similarity(distance) ELSE best

(***************************************************************************)
(* The inputs                                                              *)
(***************************************************************************)
Filenames == {"", "license", "id.gif", "ID.JPG"}

ImageData == {"valid", "undecodable"}

Uploads == [filename : Filenames, data : ImageData]

FileKeys == {"license_image", "user_photo"}

\* request.files
Requests == UNION {[keys -> Uploads] : keys \in SUBSET FileKeys}

\* what pytesseract.image_to_string may return
OcrTexts ==
    { "", " \n", "DRIVER LICENSE", "Valid card 1/2/90", "John Smith AB1234567" }

RichText ==
    "STATE DMV Department of Motor Vehicle\nDRIVER LICENSE Identification Card\n"
    \o "John Smith DOB 12/31/1990 AB 1234567\n"
    \o "Expires Issued Class Restrictions Endorsements Date Birth Address "
    \o "Height Weight Eyes Hair"

\* the texts the scorer is applied to
ScoreTexts ==
    OcrTexts \cup
    { "driver license state dmv department", "NY A1234",
      "expires 01/02/2030 issued 1/2/20", RichText }

NoResponse == [status |-> 0, error |-> ""]

NoBreakdown ==
    [base_license_score |-> 0, face_match_score |-> 0, keyword_matches |-> 0,
     text_quality |-> 0, confidence_indicators |-> 0]

\* the state before anything ran; each specification overrides its inputs
Blank ==
    /\ ocr_idx = 1
    /\ temp_files = {}
    /\ image_path = "none"
    /\ detect_stage = 1
    /\ face_locations = 0
    /\ i = 1
    /\ j = 1
    /\ best_match_score = 0
    /\ distance_calls = 0
    /\ safety_status = "none"
    /\ confidence_level = "none"
    /\ score_breakdown = NoBreakdown
    /\ response = NoResponse
    /\ steps = {}

(***************************************************************************)
(* ocr: the /ocr handler                                                   *)
(***************************************************************************)
Init ==
    /\ pc = "validate"
    /\ request \in Requests
    /\ text = ""
    /\ license_face_encodings = <<>>
    /\ user_face_encodings = <<>>
    /\ face_match_score = 0
    /\ is_license = FALSE
    /\ safety_score = 0
    /\ Blank

\* return jsonify({'error': error}), status
Reply(status, error) ==
    /\ response' = [status |-> status, error |-> error]
    /\ pc' = "done"

\* lines 245-258
Validate ==
    /\ pc = "validate"
    /\ IF "license_image" \notin DOMAIN request
       THEN Reply(400, "No license image uploaded")
       ELSE IF "user_photo" \notin DOMAIN request
       THEN Reply(400, "No user photo uploaded")
       ELSE IF \/ request["license_image"].filename = ""
               \/ request["user_photo"].filename = ""
       THEN Reply(400, "No file selected")
       ELSE IF \/ ~allowed_file(request["license_image"].filename)
               \/ ~allowed_file(request["user_photo"].filename)
       THEN Reply(400, "Unsupported file type")
       ELSE pc' = "open_license" /\ UNCHANGED response
    /\ UNCHANGED <<request, text, ocr_idx, temp_files, image_path, detect_stage,
                   face_locations, license_face_encodings, user_face_encodings,
                   i, j, best_match_score, distance_calls, face_match_score,
                   is_license, safety_score, safety_status, confidence_level,
                   score_breakdown, steps>>

\* lines 263-289: Image.open, convert, resize, enhance
OpenLicense ==
    /\ pc = "open_license"
    /\ IF request["license_image"].data = "undecodable"
       THEN Reply(400, "Invalid or unsupported image format")
       ELSE pc' = "save_license" /\ UNCHANGED response
    /\ UNCHANGED <<request, text, ocr_idx, temp_files, image_path, detect_stage,
                   face_locations, license_face_encodings, user_face_encodings,
                   i, j, best_match_score, distance_calls, face_match_score,
                   is_license, safety_score, safety_status, confidence_level,
                   score_breakdown, steps>>

\* lines 292-301: NamedTemporaryFile(delete=False), license_image.save
SaveLicense ==
    /\ pc = "save_license"
    /\ temp_files' = temp_files \cup {"temp_license"}
    /\ \E saved \in BOOLEAN :
          IF saved
          THEN pc' = "ocr" /\ UNCHANGED response
          ELSE Reply(500, "Unexpected error: save")
    /\ text' = ""
    /\ ocr_idx' = 1
    /\ UNCHANGED <<request, image_path, detect_stage,
                   face_locations, license_face_encodings, user_face_encodings,
                   i, j, best_match_score, distance_calls, face_match_score,
                   is_license, safety_score, safety_status, confidence_level,
                   score_breakdown, steps>>

\* lines 303-315: one configuration of ocr_configs; after the last one the
\* call extract_faces_from_image(temp_license.name)
OcrConfig ==
    /\ pc = "ocr"
    /\ \E raised \in BOOLEAN : \E temp_text \in OcrTexts :
          text' = IF ~raised /\ Len(strip(temp_text)) > Len(strip(text))
                  THEN temp_text ELSE text
    /\ steps' = steps \cup {"ocr"}
    /\ IF ocr_idx < 3
       THEN ocr_idx' = ocr_idx + 1 /\ UNCHANGED <<pc, image_path>>
       ELSE ocr_idx' = ocr_idx /\ pc' = "load" /\ image_path' = "temp_license"
    /\ UNCHANGED <<request, temp_files, detect_stage,
                   face_locations, license_face_encodings, user_face_encodings,
                   i, j, best_match_score, distance_calls, face_match_score,
                   is_license, safety_score, safety_status, confidence_level,
                   score_breakdown, response>>

(***************************************************************************)
(* extract_faces_from_image                                                *)
(***************************************************************************)
\* return encodings, to the call site of the handler (line 315 or 333)
ExtractReturn(encodings) ==
    /\ detect_stage' = 1
    /\ face_locations' = 0
    /\ IF image_path = "temp_license"
       THEN /\ license_face_encodings' = encodings
            /\ pc' = "unlink_license"
            /\ UNCHANGED user_face_encodings
       ELSE /\ user_face_encodings' = encodings
            /\ pc' = "unlink_user"
            /\ UNCHANGED license_face_encodings

ExtractStep == IF image_path = "temp_license" THEN "license_faces" ELSE "user_faces"

\* lines 50-66: load_image_file and the resize; line 91: any exception gives []
ExtractLoad ==
    /\ pc = "load"
    /\ steps' = steps \cup {ExtractStep}
    /\ \E raised \in BOOLEAN :
          IF raised
          THEN ExtractReturn(<<>>)
          ELSE /\ pc' = "detect"
               /\ detect_stage' = 1
               /\ UNCHANGED <<face_locations, license_face_encodings,
                              user_face_encodings>>
    /\ UNCHANGED <<request, text, ocr_idx, temp_files, image_path,
                   i, j, best_match_score, distance_calls,
                   face_match_score, is_license, safety_score, safety_status,
                   confidence_level, score_breakdown, response>>

\* lines 69-84: HOG, HOG with 2x upsample, CNN; the first non-empty result wins
ExtractDetect ==
    /\ pc = "detect"
    /\ \E raised \in BOOLEAN : \E found \in 0..MaxFaces :
          IF raised
          THEN ExtractReturn(<<>>)
          ELSE IF found > 0
          THEN /\ face_locations' = found
               /\ pc' = "encode"
               /\ UNCHANGED <<detect_stage, license_face_encodings,
                              user_face_encodings>>
          ELSE IF detect_stage < 3
          THEN /\ detect_stage' = detect_stage + 1
               /\ UNCHANGED <<pc, face_locations, license_face_encodings,
                              user_face_encodings>>
          ELSE ExtractReturn(<<>>)
    /\ UNCHANGED <<request, text, ocr_idx, temp_files, image_path,
                   i, j, best_match_score, distance_calls,
                   face_match_score, is_license, safety_score, safety_status,
                   confidence_level, score_breakdown, response, steps>>

\* lines 87-90: face_encodings gives one encoding per location
ExtractEncode ==
    /\ pc = "encode"
    /\ \E raised \in BOOLEAN :
       \E encodings \in [1..face_locations -> EncodingPoints] :
          ExtractReturn(IF raised THEN <<>> ELSE encodings)
    /\ UNCHANGED <<request, text, ocr_idx, temp_files, image_path,
                   i, j, best_match_score, distance_calls,
                   face_match_score, is_license, safety_score, safety_status,
                   confidence_level, score_breakdown, response, steps>>

\* line 318: os.unlink(temp_license.name)
UnlinkLicense ==
    /\ pc = "unlink_license"
    /\ temp_files' = temp_files \ {"temp_license"}
    /\ pc' = "open_user"
    /\ UNCHANGED <<request, text, ocr_idx, image_path, detect_stage,
                   face_locations, license_face_encodings, user_face_encodings,
                   i, j, best_match_score, distance_calls, face_match_score,
                   is_license, safety_score, safety_status, confidence_level,
                   score_breakdown, response, steps>>

\* lines 322-326: Image.open of the user photo
OpenUser ==
    /\ pc = "open_user"
    /\ IF request["user_photo"].data = "undecodable"
       THEN Reply(400, "Invalid or unsupported image format")
       ELSE pc' = "save_user" /\ UNCHANGED response
    /\ UNCHANGED <<request, text, ocr_idx, temp_files, image_path, detect_stage,
                   face_locations, license_face_encodings, user_face_encodings,
                   i, j, best_match_score, distance_calls, face_match_score,
                   is_license, safety_score, safety_status, confidence_level,
                   score_breakdown, steps>>

\* lines 329-333: NamedTemporaryFile(delete=False), user_photo_image.save, and
\* the call extract_faces_from_image(temp_user.name)
SaveUser ==
    /\ pc = "save_user"
    /\ temp_files' = temp_files \cup {"temp_user"}
    /\ \E saved \in BOOLEAN :
          IF saved
          THEN pc' = "load" /\ image_path' = "temp_user" /\ UNCHANGED response
          ELSE Reply(500, "Unexpected error: save") /\ UNCHANGED image_path
    /\ UNCHANGED <<request, text, ocr_idx, detect_stage,
                   face_locations, license_face_encodings, user_face_encodings,
                   i, j, best_match_score, distance_calls, face_match_score,
                   is_license, safety_score, safety_status, confidence_level,
                   score_breakdown, steps>>

\* line 336: os.unlink(temp_user.name)
UnlinkUser ==
    /\ pc = "unlink_user"
    /\ temp_files' = temp_files \ {"temp_user"}
    /\ pc' = "compare"
    /\ UNCHANGED <<request, text, ocr_idx, image_path, detect_stage,
                   face_locations, license_face_encodings, user_face_encodings,
                   i, j, best_match_score, distance_calls, face_match_score,
                   is_license, safety_score, safety_status, confidence_level,
                   score_breakdown, response, steps>>

(***************************************************************************)
(* compare_faces, as the handler calls it on line 339                      *)
(***************************************************************************)
\* lines 100-104: the empty check and the start of the loops
CompareBegin ==
    /\ pc = "compare"
    /\ steps' = steps \cup {"compare"}
    /\ distance_calls' = 0
    /\ IF license_face_encodings = <<>> \/ user_face_encodings = <<>>
       THEN /\ face_match_score' = 0
            /\ pc' = "score"
            /\ UNCHANGED <<i, j, best_match_score>>
       ELSE /\ best_match_score' = 0
            /\ i' = 1
            /\ j' = 1
            /\ pc' = "compare_loop"
            /\ UNCHANGED face_match_score
    /\ UNCHANGED <<request, text, ocr_idx, temp_files, image_path, detect_stage,
                   face_locations, license_face_encodings, user_face_encodings,
                   is_license, safety_score, safety_status, confidence_level,
                   score_breakdown, response>>

\* lines 106-123: one pair (i, j) of the nested loops. face_distance is called
\* outside any try of compare_faces: when it raises, the exception reaches
\* the handler's except Exception (lines 403-405).
CompareStep ==
    /\ pc = "compare_loop"
    /\ distance_calls' = distance_calls + 1
    /\ \E raised \in BOOLEAN :
          IF raised
          THEN /\ Reply(500, "Unexpected error: face_distance")
               /\ UNCHANGED <<i, j, best_match_score, face_match_score>>
          ELSE LET distance == face_distance(license_face_encodings[i],
                                             user_face_encodings[j])
                   best == UpdateBest(best_match_score, distance)
               IN  /\ best_match_score' = best
                   /\ UNCHANGED response
                   /\ IF j < Len(user_face_encodings)
                      THEN /\ j' = j + 1
                           /\ UNCHANGED <<i, pc, face_match_score>>
                      ELSE IF i < Len(license_face_encodings)
                      THEN /\ i' = i + 1
                           /\ j' = 1
                           /\ UNCHANGED <<pc, face_match_score>>
                      ELSE /\ face_match_score' = best
                           /\ pc' = "score"
                           /\ UNCHANGED <<i, j>>
    /\ UNCHANGED <<request, text, ocr_idx, temp_files, image_path, detect_stage,
                   face_locations, license_face_encodings, user_face_encodings,
                   is_license, safety_score, safety_status, confidence_level,
                   score_breakdown, steps>>

(***************************************************************************)
(* The result: lines 343-398                                               *)
(***************************************************************************)
document_keywords ==
    {"license", "driver", "id", "identification", "state", "dmv", "department"}

\* lines 343-345
IsLicenseText(t) ==
    LET text_lower == lower(t)
    IN  \E keyword \in document_keywords : Contains(keyword, text_lower)

\* line 395: every pattern counts on its own, and the length threshold is 5
BreakdownTextQuality(t) ==
    (IF DateStrict(t) THEN 2 ELSE 0) + (IF DateLoose(t) THEN 1 ELSE 0)
    + (IF LicenseNumberStrict(t) THEN 2 ELSE 0)
    + (IF LicenseNumberLoose(t) THEN 1 ELSE 0)
    + (IF StateAbbreviation(t) THEN 1 ELSE 0)
    + (IF Len(strip(t)) > 5 THEN 1 ELSE 0)
    + (IF NamePattern(t) THEN 1 ELSE 0)
    + (IF CapitalizedWord(t) THEN 1 ELSE 0)

\* lines 391-397
ScoreBreakdown(t, isLicense, similarity) ==
    LET text_lower == lower(t)
    IN  [base_license_score |-> IF isLicense THEN 70 ELSE 55,
         face_match_score |-> IntTimes(similarity, 15),
         keyword_matches |-> KeywordPoints(text_lower),
         text_quality |-> BreakdownTextQuality(t),
         confidence_indicators |-> ConfidencePoints(text_lower)]

\* lines 343-398: classify the text, score, map the score, answer 200
Respond ==
    /\ pc = "score"
    /\ steps' = steps \cup {"score"}
    /\ LET isLicense == IsLicenseText(text)
           score == calculate_safety_score(text, isLicense, face_match_score)
       IN  /\ is_license' = isLicense
           /\ safety_score' = score
           /\ safety_status' = get_safety_status(score)
           /\ confidence_level' = get_confidence_level(score)
           /\ score_breakdown' = ScoreBreakdown(text, isLicense, face_match_score)
    /\ Reply(200, "")
    /\ UNCHANGED <<request, text, ocr_idx, temp_files, image_path, detect_stage,
                   face_locations, license_face_encodings, user_face_encodings,
                   i, j, best_match_score, distance_calls, face_match_score>>

Next ==
    \/ Validate
    \/ OpenLicense
    \/ SaveLicense
    \/ OcrConfig
    \/ ExtractLoad
    \/ ExtractDetect
    \/ ExtractEncode
    \/ UnlinkLicense
    \/ OpenUser
    \/ SaveUser
    \/ UnlinkUser
    \/ CompareBegin
    \/ CompareStep
    \/ Respond

Spec == Init /\ [][Next]_vars

(***************************************************************************)
(* compare_faces applied to any two encoding lists                         *)
(***************************************************************************)
InitCompare ==
    /\ pc = "compare"
    /\ request = <<>>
    /\ license_face_encodings \in EncodingSets
    /\ user_face_encodings \in EncodingSets
    /\ text = ""
    /\ face_match_score = 0
    /\ is_license = FALSE
    /\ safety_score = 0
    /\ Blank

NextCompare == CompareBegin \/ CompareStep

SpecCompare == InitCompare /\ [][NextCompare]_vars

(***************************************************************************)
(* calculate_safety_score and the two mappers applied to any input         *)
(***************************************************************************)
InitScore ==
    /\ pc = "apply"
    /\ request = <<>>
    /\ text \in ScoreTexts
    /\ is_license \in BOOLEAN
    /\ face_match_score = 0
    /\ license_face_encodings = <<>>
    /\ user_face_encodings = <<>>
    /\ safety_score = 0
    /\ Blank

\* lines 374-376 with the similarity given
Scored(similarity) ==
    LET score == calculate_safety_score(text, is_license, similarity)
    IN  /\ face_match_score' = similarity
        /\ safety_score' = score
        /\ safety_status' = get_safety_status(score)
        /\ confidence_level' = get_confidence_level(score)
        /\ pc' = "applied"
        /\ UNCHANGED <<request, text, ocr_idx, temp_files, image_path,
                       detect_stage, face_locations, license_face_encodings,
                       user_face_encodings, i, j, best_match_score,
                       distance_calls, is_license, score_breakdown, response,
                       steps>>

\* the scorer and the mappers applied to text, is_license and any similarity
ApplyScore ==
    /\ pc = "apply"
    /\ \E similarity \in Similarities : Scored(similarity)

\* the same text and flag scored again with a higher similarity
Rescore ==
    /\ pc = "applied"
    /\ \E step \in 1..MaxSimStep :
          /\ face_match_score + step <= Scale
          /\ Scored(face_match_score + step)

NextScore == ApplyScore \/ Rescore

SpecScore == InitScore /\ [][NextScore]_vars

(***************************************************************************)
(* get_safety_status and get_confidence_level applied to any score         *)
(***************************************************************************)
InitStatus ==
    /\ pc = "status"
    /\ request = <<>>
    /\ text = ""
    /\ is_license = FALSE
    /\ face_match_score = 0
    /\ license_face_encodings = <<>>
    /\ user_face_encodings = <<>>
    /\ safety_score \in 0..100
    /\ Blank

MapStatus ==
    /\ pc = "status"
    /\ safety_status' = get_safety_status(safety_score)
    /\ confidence_level' = get_confidence_level(safety_score)
    /\ pc' = "mapped"
    /\ UNCHANGED <<request, text, ocr_idx, temp_files, image_path, detect_stage,
                   face_locations, license_face_encodings, user_face_encodings,
                   i, j, best_match_score, distance_calls, face_match_score,
                   is_license, safety_score, score_breakdown, response, steps>>

NextStatus == MapStatus

SpecStatus == InitStatus /\ [][NextStatus]_vars

(***************************************************************************)
(* The claims                                                              *)
(***************************************************************************)

\* C1: for every text, every is_license flag and every similarity in [0,1],
\* calculate_safety_score returns an integer in [0,100].
C1_ScoreInRange == pc = "applied" => safety_score \in 0..100

\* C1's case: the stages add up to more than 100 and the score is capped.
C1_Witness ==
    /\ pc = "applied"
    /\ text = RichText
    /\ face_match_score = Scale
    /\ safety_score = 100

\* C2: with text and is_license fixed, the score never decreases when the
\* similarity increases. Every step from a similarity s to s + 1 .. s +
\* MaxSimStep is a step of SpecScore, for every s, so the property holds
\* between any two similarities s1 <= s2 by following the steps from s1 to s2.
C2_ScoreMonotonic ==
    [][(/\ pc = "applied" /\ pc' = "applied"
        /\ text' = text /\ is_license' = is_license
        /\ face_match_score' >= face_match_score)
       => safety_score' >= safety_score]_vars

\* C2's case: a license text scored just above the 0.2 boundary, where the
\* base changes from 40 to 50 + floor(0.21 * 15).
C2_Witness ==
    /\ pc = "applied"
    /\ is_license
    /\ face_match_score * 100 = 21 * Scale
    /\ safety_score >= 53

\* The six bands of the status mapper, lowest first.
Bands ==
    << [low |-> 0,  high |-> 9,   status |-> "rejected",  confidence |-> "minimal"],
       [low |-> 10, high |-> 24,  status |-> "unsafe",    confidence |-> "very_low"],
       [low |-> 25, high |-> 39,  status |-> "risky",     confidence |-> "low"],
       [low |-> 40, high |-> 59,  status |-> "moderate",  confidence |-> "medium"],
       [low |-> 60, high |-> 79,  status |-> "safe",      confidence |-> "high"],
       [low |-> 80, high |-> 100, status |-> "very_safe", confidence |-> "very_high"] >>

StatusRank(status) == CHOOSE b \in 1..6 : Bands[b].status = status

ConfidenceRank(confidence) == CHOOSE b \in 1..6 : Bands[b].confidence = confidence

\* C3: every score of 0..100 lies in exactly one band, both mappers return
\* the labels of that band, and neither label ranks below the label of any
\* lower score.
C3_StatusBands ==
    pc = "mapped" =>
        /\ Cardinality({b \in 1..6 :
                          safety_score \in Bands[b].low..Bands[b].high}) = 1
        /\ \A b \in 1..6 :
              safety_score \in Bands[b].low..Bands[b].high =>
                  /\ safety_status = Bands[b].status
                  /\ confidence_level = Bands[b].confidence
        /\ \A below \in 0..safety_score :
              /\ StatusRank(get_safety_status(below)) <= StatusRank(safety_status)
              /\ ConfidenceRank(get_confidence_level(below))
                     <= ConfidenceRank(confidence_level)

\* C3's case: the score 25, the first of the band (risky, low).
C3_Witness ==
    /\ pc = "mapped"
    /\ safety_score = 25
    /\ safety_status = "risky"
    /\ confidence_level = "low"

ScenarioA ==
    /\ pc = "applied"
    /\ text = ""
    /\ ~is_license
    /\ face_match_score = 0

\* C4 as claimed: the all-empty input scores 20 with status "rejected" and
\* confidence "minimal".
C4_ScenarioA_Claimed ==
    ScenarioA =>
        /\ safety_score = 20
        /\ safety_status = "rejected"
        /\ confidence_level = "minimal"

\* C4 as amended: the all-empty input scores 20, and 20 lies in the band
\* 10..24: status "unsafe", confidence "very_low".
C4_ScenarioA_Amended ==
    ScenarioA =>
        /\ safety_score = 20
        /\ safety_status = "unsafe"
        /\ confidence_level = "very_low"

\* C4's case: the scorer was applied to the all-empty input.
C4_Witness == ScenarioA /\ safety_score = 20

Range(seq) == {seq[k] : k \in 1..Len(seq)}

SetMax(S) == CHOOSE x \in S : \A y \in S : y <= x

SetMin(S) == CHOOSE x \in S : \A y \in S : x <= y

\* max(0, 1 - distance) over the pairs with distance <= 0.6, or 0: a function
\* of the two sets of encodings, not of their order
ClaimedBest(A, B) ==
    SetMax({0} \cup
           { Max(0, Scale - face_distance(a, b)) :
               <<a, b>> \in {p \in A \X B :
                               face_distance(p[1], p[2]) * 10 <= 6 * Scale} })

\* C5: compare_faces computes one distance per pair and returns the best
\* similarity among the pairs within the tolerance, which depends only on
\* the sets of encodings; it returns 0 without computing a distance when
\* either list is empty, and 0 when no pair is within the tolerance.
C5_BestOfAllPairs ==
    pc = "score" =>
        /\ face_match_score = ClaimedBest(Range(license_face_encodings),
                                          Range(user_face_encodings))
        /\ IF license_face_encodings = <<>> \/ user_face_encodings = <<>>
           THEN face_match_score = 0 /\ distance_calls = 0
           ELSE distance_calls =
                    Len(license_face_encodings) * Len(user_face_encodings)

\* C5's case: the first pair matches (distance 0.4) and the last pair is the
\* best one (distance 0).
C5_Witness ==
    /\ pc = "score"
    /\ license_face_encodings = <<0, 40>>
    /\ user_face_encodings = <<40, 101>>
    /\ distance_calls = 4
    /\ face_match_score = Scale

Answered(status) == pc = "done" /\ response.status = status

HasInputError ==
    \/ DOMAIN request # FileKeys
    \/ \E key \in DOMAIN request :
          \/ request[key].filename = ""
          \/ ~allowed_file(request[key].filename)
          \/ request[key].data = "undecodable"

\* C6: a request with an input error on either image is answered 400, and
\* no pipeline step ran before the answer. (Runs that end in an unexpected
\* error, 500, are left out of the statement.)
C6_InputErrorBeforePipeline ==
    (pc = "done" /\ HasInputError /\ response.status # 500) =>
        /\ response.status = 400
        /\ steps = {}

\* C7: when both images decode (and are saved), collaborator failures are
\* absorbed and the handler answers with a result, never an error.
C7_CollaboratorFailuresAbsorbed ==
    (pc = "done" /\ ~HasInputError /\ response.error # "Unexpected error: save")
        => response.status = 200

\* C8: no temporary file is left when the handler returns.
C8_TempFilesDeleted == pc = "done" => temp_files = {}

\* C9: the sub-totals of score_breakdown, summed and clamped to [0,100],
\* are the safety_score of the same result.
C9_BreakdownIsScore ==
    Answered(200) =>
        Max(0, Min(100, score_breakdown.base_license_score
                        + score_breakdown.face_match_score
                        + score_breakdown.keyword_matches
                        + score_breakdown.text_quality
                        + score_breakdown.confidence_indicators))
            = safety_score

PairDistances ==
    { face_distance(a, b) :
        <<a, b>> \in Range(license_face_encodings) \X Range(user_face_encodings) }

MiddleTier == face_match_score * 10 > 2 * Scale /\ face_match_score * 10 <= 4 * Scale

\* C10: the similarity compare_faces hands to the scorer is 0 or at least
\* 0.4; the scorer's middle tier is taken only when the best distance is
\* exactly 0.6, and otherwise the base is 70 + bonus, 40 or 20.
C10_NoWeakMatch ==
    (pc = "score" \/ Answered(200)) =>
        /\ face_match_score = 0 \/ face_match_score * 10 >= 4 * Scale
        /\ MiddleTier =>
              /\ PairDistances # {}
              /\ SetMin(PairDistances) * 10 = 6 * Scale
        /\ ~MiddleTier =>
              FaceMatchPoints(IsLicenseText(text), face_match_score)
                  \in {20, 40} \cup {70 + IntTimes(face_match_score, 20)}

\* C10's case: the best pair is at distance 0.6 exactly, and the result was
\* scored in the middle tier: 50 + floor(0.4 * 15) = 56 before the text.
C10_Witness ==
    /\ Answered(200)
    /\ face_match_score * 10 = 4 * Scale
    /\ safety_score >= 56
    /\ safety_score < 70

====
